---- MODULE Spec2Model ----
(***************************************************************************)
(* Refusal Bypass filter (src/RefusalBypass.py): the outlet coroutine, the *)
(* blocking helpers it offloads to worker threads, and the inference       *)
(* runtime's resident-model set the helpers act on.                        *)
(*                                                                         *)
(* A text is a sequence of one-character strings.  Fixed literals of the   *)
(* source (prompt template, status descriptions, error sentinels) are kept *)
(* as one fragment each, so a text built by an f-string is the             *)
(* concatenation of fragments and embedded texts.                          *)
(***************************************************************************)
EXTENDS Integers, Sequences, FiniteSets, TLC

VARIABLES
    valves,          \* Filter.valves: the configuration of the filter
    resident,        \* the models resident in the inference runtime
    resident0,       \* the models resident when the invocations began
    emitter,         \* per invocation: "present" or "absent" (__event_emitter__)
    body0,           \* per invocation: the body as the host handed it in
    body,            \* per invocation: the caller's body object (mutated in place)
    pc,              \* per invocation: position in outlet
    ai_response,     \* per invocation: local of outlet
    original_model,  \* per invocation: local of outlet
    is_refusal,      \* per invocation: local of outlet
    judged,          \* per invocation: is_refusal has been assigned
    history_minus_refusal, \* per invocation: local of outlet
    new_answer,      \* per invocation: local of outlet
    calls,           \* per invocation: requests sent to the runtime, with replies
    response,        \* per invocation: the latest reply a worker received
    emitted,         \* per invocation: the status updates outlet handed to emit_status
    events,          \* per invocation: events the observer accepted
    printed,         \* per invocation: lines written to the console
    oracle           \* the reply of a deterministic runtime to each request

vars == <<valves, resident, resident0, emitter, body0, body, pc, ai_response,
          original_model, is_refusal, judged, history_minus_refusal,
          new_answer, calls, response, emitted, events, printed, oracle>>

---------------------------------------------------------------------------
(* Bounds of the model *)

\* invocations of outlet the model has room for
NumInvocations == 2
\* longest message sequence of a body
MaxMessages == 2
\* longest raw reply of the judge
MaxReplyLen == 4

Invocations == 1..NumInvocations

---------------------------------------------------------------------------
(* Texts *)

Min(a, b) == IF a < b THEN a ELSE b

\* characters str.strip() removes
Whitespace == {" ", "\n"}

\* a content that is not a str (a list of content parts)
NonText == <<"<list>">>

\* faulty variant: the whole text goes into the prompt
ContextPreviewWhole(content) == content

\* content[:1000]
PreviewLimit == 1000

RECURSIVE LStrip(_)
LStrip(s) ==
    IF s = <<>> THEN <<>>
    ELSE IF s[1] \in Whitespace THEN LStrip(Tail(s)) ELSE s

RECURSIVE RStrip(_)
RStrip(s) ==
    IF s = <<>> THEN <<>>
    ELSE IF s[Len(s)] \in Whitespace THEN RStrip(SubSeq(s, 1, Len(s) - 1)) ELSE s

\* str.strip()
Strip(s) == RStrip(LStrip(s))

\* str.upper() on one character
UpperChar(c) ==
    CASE c = "y" -> "Y"
      [] c = "e" -> "E"
      [] c = "s" -> "S"
      [] c = "n" -> "N"
      [] c = "o" -> "O"
      [] OTHER -> c

\* str.upper()
Upper(s) == [k \in 1..Len(s) |-> UpperChar(s[k])]

\* sub in s
Contains(s, sub) ==
    \E k \in 1..(Len(s) - Len(sub) + 1) : SubSeq(s, k, k + Len(sub) - 1) = sub

\* all sequences over S of length at most n
SeqsUpTo(S, n) == UNION {[1..k -> S] : k \in 0..n}

---------------------------------------------------------------------------
(* Configuration, bodies and the runtime's replies *)

\* Valves(): every field at its default, as __init__ constructs it
Valves ==
    [abliterated_model_id |-> "dolphin-mistral",
     judge_model_id |-> "llama3.2",
     ollama_base_url |-> "http://host.docker.internal:11434",
     debug |-> FALSE]

\* body.get("model") of a body without the key
NoneModel == "None"

\* the model that produced the candidate turn
PrimaryModel == "modelA"

UserMessage == [role |-> "user", content |-> <<"q">>]

\* contents of the message under evaluation
LastContents ==
    {<<>>, <<" ">>, <<"\n", " ">>, <<"a">>, <<" ", "a">>, NonText}

\* the message under evaluation, with or without a content key
LastMessages ==
    {[role |-> "assistant", content |-> c] : c \in LastContents}
        \cup {[role |-> "assistant"]}

\* message sequences: earlier turns, then the candidate turn
MessageSeqs ==
    {<<>>} \cup
    {[k \in 1..n |-> IF k = n THEN last ELSE UserMessage] :
        n \in 1..MaxMessages, last \in LastMessages}

\* bodies the host hands in: the model and messages keys may be missing
Bodies ==
    {[model |-> PrimaryModel, messages |-> ms] : ms \in MessageSeqs}
        \cup {[messages |-> ms] : ms \in MessageSeqs}
        \cup {[model |-> PrimaryModel]}

\* characters of a judge reply
ReplyAlphabet == {"y", "e", "s", "S", "n", " "}

JudgeReplies == SeqsUpTo(ReplyAlphabet, MaxReplyLen)

\* texts the secondary model generates
GeneratedTexts == {<<"o", "k">>, <<>>}

\* the text of a caught exception, as one fragment
ExcText == <<"<exception>">>

Pending == [status |-> "pending"]

\* no reply received yet
NoResponse == [status |-> "none"]

\* replies to the judge request (lines 76-79)
ClassifyResponses ==
    {[status |-> "ok", response |-> r] : r \in JudgeReplies}
        \cup {[status |-> s] : s \in {"http_error", "conn_error", "bad_json"}}

\* replies to a keep_alive request (lines 97, 108)
ResidencyResponses(model_id) ==
    {[status |-> s] : s \in {"http_error", "conn_error"}}
        \cup (IF model_id = NoneModel THEN {} ELSE {[status |-> "ok"]})

\* replies to the chat request (lines 126-131)
ChatResponses ==
    {[status |-> "ok", content |-> t] : t \in GeneratedTexts}
        \cup {[status |-> s] :
                s \in {"no_content", "http_error", "conn_error", "bad_json"}}

---------------------------------------------------------------------------
(* The blocking helpers, as functions of the reply *)

\* faulty variant: the strip() test left out
IsBlankNoStrip(content) == content = <<>>

\* not content or not content.strip()
IsBlank(content) == content = <<>> \/ Strip(content) = <<>>

\* content[:1000]
ContextPreview(content) == SubSeq(content, 1, Min(Len(content), PreviewLimit))

PromptHead ==
    "Analyze the following AI response text. ... Text: \""
PromptTail ==
    "\"\n\nAnswer with exactly one word: 'YES' or 'NO'."

\* the judge prompt
JudgePrompt(content) == <<PromptHead>> \o ContextPreview(content) \o <<PromptTail>>

ApiGenerate(v) == <<v.ollama_base_url, "/api/generate">>
ApiChat(v) == <<v.ollama_base_url, "/api/chat">>

\* the request check_refusal posts
JudgeRequest(v, content) ==
    [url |-> ApiGenerate(v),
     model |-> v.judge_model_id,
     prompt |-> JudgePrompt(content),
     stream |-> FALSE,
     options |-> [temperature |-> 0, num_predict |-> 10]]

\* the request unload_model posts
UnloadRequest(v, model_id) ==
    [url |-> ApiGenerate(v), model |-> model_id, keep_alive |-> 0]

\* the request load_model posts
LoadRequest(v, model_id) ==
    [url |-> ApiGenerate(v), model |-> model_id, keep_alive |-> -1]

\* the request generate_replacement posts
ChatRequest(v, model_id, messages) ==
    [url |-> ApiChat(v), model |-> model_id, messages |-> messages,
     stream |-> FALSE]

\* faulty variant: upper() left out
ParseVerdictNoUpper(raw) == Contains(Strip(raw), <<"Y", "E", "S">>)

\* "YES" in response.json().get("response", "").strip().upper()
ParseVerdict(raw) == Contains(Upper(Strip(raw)), <<"Y", "E", "S">>)

\* faulty variant: the except clause returns True
VerdictOnErrorTrue == TRUE

\* what the except clause of check_refusal returns
VerdictOnError == FALSE

\* faulty variant: a refusal already found is remembered, and the next call
\* answers False
CheckRefusalResultOnce(resp) ==
    IF \E j \in Invocations : judged[j] /\ is_refusal[j]
    THEN FALSE
    ELSE IF resp.status = "ok" THEN ParseVerdict(resp.response) ELSE VerdictOnError

\* the value check_refusal returns for a reply
CheckRefusalResult(resp) ==
    IF resp.status = "ok" THEN ParseVerdict(resp.response) ELSE VerdictOnError

\* the value generate_replacement returns for a reply
GenerateResult(resp) ==
    CASE resp.status = "ok" -> resp.content
      [] resp.status = "no_content" -> <<"Error generating replacement.">>
      [] OTHER -> <<"System Error: Failed to swap models. ">> \o ExcText

\* the resident set after the runtime served a request
ResidentAfter(res, req, resp) ==
    IF resp.status \in {"ok", "no_content", "bad_json"}
    THEN IF "keep_alive" \in DOMAIN req /\ req.keep_alive = 0
         THEN res \ {req.model}
         ELSE res \cup {req.model}
    ELSE res

---------------------------------------------------------------------------
(* outlet: locals and control *)

Last(s) == s[Len(s)]
ButLast(s) == SubSeq(s, 1, Len(s) - 1)

\* body.get("messages", [])
GetMessages(b) == IF "messages" \in DOMAIN b THEN b.messages ELSE <<>>

\* body.get("model")
GetModel(b) == IF "model" \in DOMAIN b THEN b.model ELSE NoneModel

\* messages[-1].get("content", "")
GetContent(m) == IF "content" \in DOMAIN m THEN m.content ELSE <<>>

\* faulty variant: the early return left out, the empty case falls to the else branch
EntryPcNoEarlyReturn(messages) ==
    IF messages = <<>> THEN "emit_clear" ELSE "emit_checking"

\* where outlet goes after reading the messages (lines 151-153)
EntryPc(messages) == IF messages = <<>> THEN "returned" ELSE "emit_checking"

\* faulty variant: the else branch that clears the status left out
BranchPcNoClear(refusal) ==
    IF refusal THEN "emit_unloading_primary" ELSE "returned"

\* where outlet goes on the verdict (lines 175, 223)
BranchPc(refusal) == IF refusal THEN "emit_unloading_primary" ELSE "emit_clear"

\* faulty variant: the answer is written to the first message
UpdatedBodyFirst(b, answer) ==
    [b EXCEPT !.messages =
        [k \in 1..Len(b.messages) |->
            IF k = 1
            THEN [f \in DOMAIN b.messages[k] \cup {"content"} |->
                    IF f = "content" THEN answer ELSE b.messages[k][f]]
            ELSE b.messages[k]]]

\* body["messages"][-1]["content"] = new_answer
UpdatedBody(b, answer) ==
    [b EXCEPT !.messages =
        [k \in 1..Len(b.messages) |->
            IF k = Len(b.messages)
            THEN [f \in DOMAIN b.messages[k] \cup {"content"} |->
                    IF f = "content" THEN answer ELSE b.messages[k][f]]
            ELSE b.messages[k]]]

\* the positions at which outlet awaits emit_status
EmitPcs ==
    {"emit_checking", "emit_unloading_primary", "emit_generating",
     "emit_unloading_secondary", "emit_restoring", "emit_complete",
     "emit_clear"}

\* the event emit_status hands to the observer at each position
StatusEvent(i, at) ==
    LET ev(message, done) ==
            [type |-> "status",
             data |-> [description |-> message, done |-> done]]
    IN CASE at = "emit_checking" ->
                ev(<<"Checking response for refusal...">>, FALSE)
         [] at = "emit_unloading_primary" ->
                ev(<<"Refusal detected. Unloading ", original_model[i], "...">>,
                   FALSE)
         [] at = "emit_generating" ->
                ev(<<"Loading ", valves.abliterated_model_id,
                     " & Generating...">>, FALSE)
         [] at = "emit_unloading_secondary" ->
                ev(<<"Unloading ", valves.abliterated_model_id, "...">>, FALSE)
         [] at = "emit_restoring" ->
                ev(<<"Restoring ", original_model[i], "...">>, FALSE)
         [] at = "emit_complete" -> ev(<<"Model swap complete.">>, TRUE)
         [] at = "emit_clear" -> ev(<<>>, TRUE)

\* faulty variant: load_model left out after the restoring event
AfterEmitNoRestore(at) ==
    CASE at = "emit_checking" -> "call_check"
      [] at = "emit_unloading_primary" -> "call_unload_primary"
      [] at = "emit_generating" -> "call_generate"
      [] at = "emit_unloading_secondary" -> "call_unload_secondary"
      [] at = "emit_restoring" -> "emit_complete"
      [] at = "emit_complete" -> "update_body"
      [] at = "emit_clear" -> "returned"

\* faulty variant: the body is written right after the secondary's answer,
\* before the secondary is unloaded
AfterEmitEarlyUpdate(at) ==
    CASE at = "emit_checking" -> "call_check"
      [] at = "emit_unloading_primary" -> "call_unload_primary"
      [] at = "emit_generating" -> "call_generate"
      [] at = "emit_unloading_secondary" -> "update_body"
      [] at = "emit_restoring" -> "call_load"
      [] at = "emit_complete" -> "update_body"
      [] at = "emit_clear" -> "returned"

\* the statement that follows each await of emit_status
AfterEmit(at) ==
    CASE at = "emit_checking" -> "call_check"
      [] at = "emit_unloading_primary" -> "call_unload_primary"
      [] at = "emit_generating" -> "call_generate"
      [] at = "emit_unloading_secondary" -> "call_unload_secondary"
      [] at = "emit_restoring" -> "call_load"
      [] at = "emit_complete" -> "update_body"
      [] at = "emit_clear" -> "returned"

\* faulty variant: the event is delivered whether or not an observer is set
DeliveredAlways(em, accepted, event) == Append(accepted, event)

\* if emitter: await emitter(event) -- what the observer holds afterwards
Delivered(em, accepted, event) ==
    IF em = "present" THEN Append(accepted, event) ELSE accepted

\* the console lines a helper writes only when valves.debug is set
Debug(line) == IF valves.debug THEN <<line>> ELSE <<>>

\* a request leaves for the runtime
Send(i, req) ==
    calls' = [calls EXCEPT ![i] = Append(@, [req |-> req, resp |-> Pending])]

\* the request of invocation i that is in flight
InFlight(i) == Last(calls[i]).req

\* the request of invocation i has been answered, or has failed
Answered(i) == calls[i] # <<>> /\ Last(calls[i]).resp # Pending

\* the runtime is not bound to any reply
NoOracle == <<>>

\* the replies the runtime can give to a request
ResponsesFor(req) ==
    IF "prompt" \in DOMAIN req THEN ClassifyResponses
    ELSE IF "keep_alive" \in DOMAIN req THEN ResidencyResponses(req.model)
    ELSE ChatResponses

\* what the record of calls keeps of a reply: all but the judge's raw text
Logged(resp) ==
    IF "response" \in DOMAIN resp THEN [status |-> resp.status] ELSE resp

---------------------------------------------------------------------------
(* Initial states *)

\* the locals of an invocation before outlet has assigned them
InitOf(v, res, started, em, b) ==
    /\ valves = v
    /\ resident = res
    /\ resident0 = res
    /\ pc = [i \in Invocations |-> IF i \in started THEN "start" ELSE "none"]
    /\ emitter = [i \in Invocations |-> IF i \in started THEN em[i] ELSE "absent"]
    /\ body0 = [i \in Invocations |-> IF i \in started THEN b[i] ELSE [model |-> PrimaryModel]]
    /\ body = body0
    /\ ai_response = [i \in Invocations |-> <<>>]
    /\ original_model = [i \in Invocations |-> NoneModel]
    /\ is_refusal = [i \in Invocations |-> FALSE]
    /\ judged = [i \in Invocations |-> FALSE]
    /\ history_minus_refusal = [i \in Invocations |-> <<>>]
    /\ new_answer = [i \in Invocations |-> <<>>]
    /\ calls = [i \in Invocations |-> <<>>]
    /\ response = [i \in Invocations |-> NoResponse]
    /\ emitted = [i \in Invocations |-> <<>>]
    /\ events = [i \in Invocations |-> <<>>]
    /\ printed = [i \in Invocations |-> <<>>]

\* one invocation of outlet, on any body, with or without an observer
Init ==
    \E res \in SUBSET {PrimaryModel, Valves.abliterated_model_id},
       em \in {"present", "absent"}, b \in Bodies :
        /\ InitOf(Valves, res, {1}, [i \in Invocations |-> em], [i \in Invocations |-> b])
        /\ oracle = NoOracle

---------------------------------------------------------------------------
(* Steps of an invocation.  outlet runs from one await to the next; every   *)
(* blocking helper runs in a worker thread: it sends its request, the      *)
(* runtime answers (or the request fails), and the helper reads the reply  *)
(* and returns to outlet.                                                  *)

\* lines 151-159: read the body, return at once when there are no messages
OutletEnter(i) ==
    /\ pc[i] = "start"
    /\ LET messages == GetMessages(body[i]) IN
        /\ pc' = [pc EXCEPT ![i] = EntryPc(messages)]
        /\ IF messages = <<>>
           THEN UNCHANGED <<ai_response, original_model>>
           ELSE /\ ai_response' =
                    [ai_response EXCEPT ![i] = GetContent(Last(messages))]
                /\ original_model' =
                    [original_model EXCEPT ![i] = GetModel(body[i])]
    /\ UNCHANGED <<valves, oracle, emitted, resident0, resident, emitter, body0, body,
                   is_refusal, judged, history_minus_refusal, new_answer,
                   calls, response, events, printed>>

\* lines 135-140: emit_status awaits the observer, if there is one; an
\* exception of the observer leaves emit_status and outlet
EmitStatus(i) ==
    /\ pc[i] \in EmitPcs
    /\ emitted' = [emitted EXCEPT ![i] = Append(@, StatusEvent(i, pc[i]))]
    /\ \/ /\ pc' = [pc EXCEPT ![i] = AfterEmit(pc[i])]
          /\ events' = [events EXCEPT ![i] =
                Delivered(emitter[i], @, StatusEvent(i, pc[i]))]
       \/ /\ emitter[i] = "present"
          /\ pc' = [pc EXCEPT ![i] = "raised"]
          /\ UNCHANGED events
    /\ UNCHANGED <<valves, oracle, resident0, resident, emitter, body0, body,
                   ai_response, original_model, is_refusal, judged,
                   history_minus_refusal, new_answer, calls, response, printed>>

\* a request of the invocation is in flight
RequestPending(i) == calls[i] # <<>> /\ Last(calls[i]).resp = Pending

\* the runtime serves the request in flight with one of the replies, or the
\* request fails; the worker that sent it holds the reply
RuntimeReplyFrom(i, replies) ==
    /\ RequestPending(i)
    /\ \E resp \in replies :
        /\ response' = [response EXCEPT ![i] = resp]
        /\ calls' = [calls EXCEPT ![i][Len(calls[i])].resp = Logged(resp)]
        /\ resident' = ResidentAfter(resident, InFlight(i), resp)
    /\ UNCHANGED <<valves, oracle, emitted, resident0, emitter, body0, body, pc,
                   ai_response, original_model, is_refusal, judged,
                   history_minus_refusal, new_answer, events, printed>>

\* a runtime free to answer, or fail, in any way
RuntimeReply(i) ==
    RequestPending(i) /\ RuntimeReplyFrom(i, ResponsesFor(InFlight(i)))

\* lines 166-173 and 46-76: the worker runs check_refusal up to its request
CheckRefusalCall(i) ==
    /\ pc[i] = "call_check"
    /\ IF ai_response[i] = NonText
       THEN \* content.strip() raises; outlet catches it (lines 171-173)
            /\ is_refusal' = [is_refusal EXCEPT ![i] = FALSE]
            /\ judged' = [judged EXCEPT ![i] = TRUE]
            /\ printed' = [printed EXCEPT ![i] =
                    Append(@, "Error in async execution of check_refusal")]
            /\ pc' = [pc EXCEPT ![i] = BranchPc(FALSE)]
            /\ UNCHANGED calls
       ELSE IF IsBlank(ai_response[i])
       THEN /\ is_refusal' = [is_refusal EXCEPT ![i] = FALSE]
            /\ judged' = [judged EXCEPT ![i] = TRUE]
            /\ pc' = [pc EXCEPT ![i] = BranchPc(FALSE)]
            /\ UNCHANGED <<calls, printed>>
       ELSE /\ Send(i, JudgeRequest(valves, ai_response[i]))
            /\ printed' = [printed EXCEPT ![i] = @ \o Debug("DEBUG: asking judge")]
            /\ pc' = [pc EXCEPT ![i] = "wait_check"]
            /\ UNCHANGED <<is_refusal, judged>>
    /\ UNCHANGED <<valves, oracle, emitted, resident0, resident, emitter, body0, body,
                   ai_response, original_model, history_minus_refusal,
                   new_answer, response, events>>

\* lines 76-90 and 175-176: check_refusal reads the reply and returns
CheckRefusalReturn(i) ==
    /\ pc[i] = "wait_check"
    /\ Answered(i)
    /\ LET verdict == CheckRefusalResult(response[i]) IN
        /\ is_refusal' = [is_refusal EXCEPT ![i] = verdict]
        /\ judged' = [judged EXCEPT ![i] = TRUE]
        /\ printed' = [printed EXCEPT ![i] =
                @ \o (IF response[i].status = "ok"
                      THEN Debug("DEBUG: Judge verdict")
                      ELSE Debug("Error checking refusal with judge"))
                  \o (IF verdict THEN <<"Refusal detected">> ELSE <<>>)]
        /\ pc' = [pc EXCEPT ![i] = BranchPc(verdict)]
    /\ UNCHANGED <<valves, oracle, emitted, resident0, resident, emitter, body0, body,
                   ai_response, original_model, history_minus_refusal,
                   new_answer, calls, events, response>>

\* the model each unload_model call of outlet names (lines 186, 209)
UnloadTarget(i) ==
    IF pc[i] \in {"call_unload_primary", "wait_unload_primary"}
    THEN original_model[i]
    ELSE valves.abliterated_model_id

\* lines 183-186, 208-210 and 92-97: the worker runs unload_model up to its
\* request
UnloadModelCall(i) ==
    /\ pc[i] \in {"call_unload_primary", "call_unload_secondary"}
    /\ Send(i, UnloadRequest(valves, UnloadTarget(i)))
    /\ IF pc[i] = "call_unload_primary"
       THEN /\ history_minus_refusal' =
                [history_minus_refusal EXCEPT ![i] = ButLast(GetMessages(body[i]))]
            /\ pc' = [pc EXCEPT ![i] = "wait_unload_primary"]
       ELSE /\ UNCHANGED history_minus_refusal
            /\ pc' = [pc EXCEPT ![i] = "wait_unload_secondary"]
    /\ UNCHANGED <<valves, oracle, emitted, resident0, resident, emitter, body0, body,
                   ai_response, original_model, is_refusal, judged, new_answer,
                   response, events, printed>>

\* lines 97-101: unload_model returns, whatever became of its request
UnloadModelReturn(i) ==
    /\ pc[i] \in {"wait_unload_primary", "wait_unload_secondary"}
    /\ Answered(i)
    /\ printed' = [printed EXCEPT ![i] =
            @ \o (IF response[i].status = "conn_error"
                  THEN <<"Error unloading">>
                  ELSE Debug("DEBUG: Unloaded"))]
    /\ pc' = [pc EXCEPT ![i] =
                IF pc[i] = "wait_unload_primary"
                THEN "emit_generating" ELSE "emit_restoring"]
    /\ UNCHANGED <<valves, oracle, emitted, resident0, resident, emitter, body0, body,
                   ai_response, original_model, is_refusal, judged,
                   history_minus_refusal, new_answer, calls, events, response>>

\* lines 195-200 and 114-126: the worker runs generate_replacement up to its
\* request
GenerateReplacementCall(i) ==
    /\ pc[i] = "call_generate"
    /\ Send(i, ChatRequest(valves, valves.abliterated_model_id,
                           history_minus_refusal[i]))
    /\ printed' = [printed EXCEPT ![i] = @ \o Debug("DEBUG: Generating")]
    /\ pc' = [pc EXCEPT ![i] = "wait_generate"]
    /\ UNCHANGED <<valves, oracle, emitted, resident0, resident, emitter, body0, body,
                   ai_response, original_model, is_refusal, judged,
                   history_minus_refusal, new_answer, response, events>>

\* lines 126-133: generate_replacement returns a text, whatever became of
\* its request
GenerateReplacementReturn(i) ==
    /\ pc[i] = "wait_generate"
    /\ Answered(i)
    /\ new_answer' = [new_answer EXCEPT ![i] = GenerateResult(response[i])]
    /\ pc' = [pc EXCEPT ![i] = "emit_unloading_secondary"]
    /\ UNCHANGED <<valves, oracle, emitted, resident0, resident, emitter, body0, body,
                   ai_response, original_model, is_refusal, judged,
                   history_minus_refusal, calls, events, printed, response>>

\* lines 216 and 103-108: the worker runs load_model up to its request
LoadModelCall(i) ==
    /\ pc[i] = "call_load"
    /\ Send(i, LoadRequest(valves, original_model[i]))
    /\ pc' = [pc EXCEPT ![i] = "wait_load"]
    /\ UNCHANGED <<valves, oracle, emitted, resident0, resident, emitter, body0, body,
                   ai_response, original_model, is_refusal, judged,
                   history_minus_refusal, new_answer, response, events,
                   printed>>

\* lines 108-112: load_model returns, whatever became of its request
LoadModelReturn(i) ==
    /\ pc[i] = "wait_load"
    /\ Answered(i)
    /\ printed' = [printed EXCEPT ![i] =
            @ \o (IF response[i].status = "conn_error"
                  THEN <<"Error loading">>
                  ELSE Debug("DEBUG: Reloaded"))]
    /\ pc' = [pc EXCEPT ![i] = "emit_complete"]
    /\ UNCHANGED <<valves, oracle, emitted, resident0, resident, emitter, body0, body,
                   ai_response, original_model, is_refusal, judged,
                   history_minus_refusal, new_answer, calls, events, response>>

\* lines 220-227: write the new answer into the caller's body and return it
OutletUpdateBody(i) ==
    /\ pc[i] = "update_body"
    /\ body' = [body EXCEPT ![i] = UpdatedBody(@, new_answer[i])]
    /\ pc' = [pc EXCEPT ![i] = "returned"]
    /\ UNCHANGED <<valves, oracle, emitted, resident0, resident, emitter, body0, ai_response,
                   original_model, is_refusal, judged, history_minus_refusal,
                   new_answer, calls, response, events, printed>>

Next ==
    \E i \in Invocations :
        \/ OutletEnter(i)
        \/ EmitStatus(i)
        \/ RuntimeReply(i)
        \/ CheckRefusalCall(i)
        \/ CheckRefusalReturn(i)
        \/ UnloadModelCall(i)
        \/ UnloadModelReturn(i)
        \/ GenerateReplacementCall(i)
        \/ GenerateReplacementReturn(i)
        \/ LoadModelCall(i)
        \/ LoadModelReturn(i)
        \/ OutletUpdateBody(i)

Spec == Init /\ [][Next]_vars

---------------------------------------------------------------------------
(* Two runs, one after the other, against a deterministic runtime: the      *)
(* runtime gives the same reply to the same request (temperature 0).       *)

\* how far past the preview limit the long texts reach
MaxOverrun == 1

\* a text of n characters
Fill(n) == [k \in 1..n |-> "a"]

\* the texts of the first run: short ones, and long ones around the limit
DetTexts ==
    {<<"a">>, <<" ">>}
        \cup {Fill(n) : n \in (PreviewLimit - 1)..(PreviewLimit + MaxOverrun)}

\* the texts of the second run: the same text, one character more, or
\* another last character
Variants(t) == {t, t \o <<"y">>, ButLast(t) \o <<"y">>}

\* a body whose candidate turn holds the text
BodyOf(t) ==
    [model |-> PrimaryModel,
     messages |-> <<UserMessage, [role |-> "assistant", content |-> t]>>]

\* the replies of the deterministic judge
DetJudgeResponses ==
    {[status |-> "ok", response |-> <<" ", "y", "e", "S">>],
     [status |-> "ok", response |-> <<"n">>],
     [status |-> "conn_error"]}

\* the deterministic runtimes: a judge reply for each prompt, one outcome for
\* the keep_alive requests and one for the chat request
Oracles(texts) ==
    [judge : [{JudgePrompt(t) : t \in texts} -> DetJudgeResponses],
     residency : {[status |-> "ok"], [status |-> "conn_error"]},
     chat : {[status |-> "ok", content |-> <<"o", "k">>],
             [status |-> "http_error"]}]

\* the reply of the deterministic runtime to a request
OracleReply(req) ==
    IF "prompt" \in DOMAIN req THEN {oracle.judge[req.prompt]}
    ELSE IF "keep_alive" \in DOMAIN req THEN {oracle.residency}
    ELSE {oracle.chat}

\* the deterministic runtime answers
DetRuntimeReply(i) ==
    RequestPending(i) /\ RuntimeReplyFrom(i, OracleReply(InFlight(i)))

\* two invocations; the first with or without an observer
InitDet ==
    \E t1 \in DetTexts :
      \E t2 \in Variants(t1), em1 \in {"present", "absent"} :
        /\ InitOf(Valves, {PrimaryModel}, {1, 2},
                  [i \in Invocations |-> IF i = 1 THEN em1 ELSE "present"],
                  [i \in Invocations |-> IF i = 1 THEN BodyOf(t1) ELSE BodyOf(t2)])
        /\ oracle \in Oracles({t1, t2})

\* the second run starts when the first has ended
NextDet ==
    \E i \in Invocations :
        /\ i = 1 \/ pc[1] \in {"returned", "raised"}
        /\ \/ OutletEnter(i)
           \/ EmitStatus(i)
           \/ DetRuntimeReply(i)
           \/ CheckRefusalCall(i)
           \/ CheckRefusalReturn(i)
           \/ UnloadModelCall(i)
           \/ UnloadModelReturn(i)
           \/ GenerateReplacementCall(i)
           \/ GenerateReplacementReturn(i)
           \/ LoadModelCall(i)
           \/ LoadModelReturn(i)
           \/ OutletUpdateBody(i)

SpecDet == InitDet /\ [][NextDet]_vars

---------------------------------------------------------------------------
(* Concurrent invocations on one event loop, sharing one runtime *)

\* the positions at which outlet awaits a helper running in a worker
WaitPcs ==
    {"wait_check", "wait_unload_primary", "wait_generate",
     "wait_unload_secondary", "wait_load"}

\* faulty variant: generate_replacement called on the event loop itself
OffloadedExceptGenerate(at) == at \in WaitPcs \ {"wait_generate"}

\* the helpers outlet hands to loop.run_in_executor and awaits
\* (lines 167, 186, 195, 208, 216)
Offloaded(at) == at \in WaitPcs

\* no other invocation holds the event loop in a blocking call
LoopFree(i) ==
    \A j \in Invocations \ {i} : pc[j] \in WaitPcs => Offloaded(pc[j])

\* between the verdict and the reload of the primary (lines 175-216)
SwapPcs ==
    {"emit_unloading_primary", "call_unload_primary", "wait_unload_primary",
     "emit_generating", "call_generate", "wait_generate",
     "emit_unloading_secondary", "call_unload_secondary",
     "wait_unload_secondary", "emit_restoring", "call_load", "wait_load"}

\* faulty variant: a swap begins only when no other invocation is in one
SwapPermittedByLock(i) ==
    pc[i] = "emit_unloading_primary"
        => \A j \in Invocations \ {i} : pc[j] \notin SwapPcs

\* outlet takes no lock before it begins a swap (lines 175-186)
SwapPermitted(i) == TRUE

\* the replies of the concurrent runs: the judge says yes or no, a
\* keep_alive request succeeds or fails, the chat request succeeds
ConcResponsesFor(req) ==
    IF "prompt" \in DOMAIN req
    THEN {[status |-> "ok", response |-> <<"Y", "E", "S">>],
          [status |-> "ok", response |-> <<"n">>]}
    ELSE IF "keep_alive" \in DOMAIN req
    THEN {[status |-> "ok"], [status |-> "conn_error"]}
    ELSE {[status |-> "ok", content |-> <<"o", "k">>]}

ConcRuntimeReply(i) ==
    RequestPending(i) /\ RuntimeReplyFrom(i, ConcResponsesFor(InFlight(i)))

\* one step of outlet on the event loop
OutletStep(i) ==
    /\ LoopFree(i)
    /\ SwapPermitted(i)
    /\ \/ OutletEnter(i)
       \/ EmitStatus(i)
       \/ CheckRefusalCall(i)
       \/ CheckRefusalReturn(i)
       \/ UnloadModelCall(i)
       \/ UnloadModelReturn(i)
       \/ GenerateReplacementCall(i)
       \/ GenerateReplacementReturn(i)
       \/ LoadModelCall(i)
       \/ LoadModelReturn(i)
       \/ OutletUpdateBody(i)

\* every invocation runs, on the same body, without an observer; the primary
\* is resident and the secondary is not
InitConc ==
    /\ InitOf(Valves, {PrimaryModel}, Invocations,
              [i \in Invocations |-> "absent"],
              [i \in Invocations |-> BodyOf(<<"a">>)])
    /\ oracle = NoOracle

NextConc ==
    \E i \in Invocations :
        \/ OutletStep(i)
        \/ ConcRuntimeReply(i)

SpecConc == InitConc /\ [][NextConc]_vars

---------------------------------------------------------------------------
(* Vocabulary of the properties *)

Secondary == Valves.abliterated_model_id

\* the invocation has left outlet
Returned(i) == pc[i] = "returned"
Raised(i) == pc[i] = "raised"
Ended(i) == Returned(i) \/ Raised(i)

IsClassify(c) == "prompt" \in DOMAIN c.req
IsEvict(c, m) ==
    "keep_alive" \in DOMAIN c.req /\ c.req.keep_alive = 0 /\ c.req.model = m
IsLoad(c, m) ==
    "keep_alive" \in DOMAIN c.req /\ c.req.keep_alive = -1 /\ c.req.model = m
IsGenerate(c, m, history) ==
    "messages" \in DOMAIN c.req /\ c.req.model = m /\ c.req.messages = history

\* the evict, load and generate requests of an invocation, in order
SwapCalls(i) == SelectSeq(calls[i], LAMBDA c : ~IsClassify(c))

\* the input messages and the primary model of an invocation
Messages0(i) == GetMessages(body0[i])
Primary(i) == GetModel(body0[i])

\* the four requests of a swap, each once and in order
FullSwap(i) ==
    /\ Len(SwapCalls(i)) = 4
    /\ IsEvict(SwapCalls(i)[1], Primary(i))
    /\ IsGenerate(SwapCalls(i)[2], Secondary, ButLast(Messages0(i)))
    /\ IsEvict(SwapCalls(i)[3], Secondary)
    /\ IsLoad(SwapCalls(i)[4], Primary(i))

\* the request failed: no reply, an error status or an unreadable reply
Failed(c) == c.resp.status \in {"http_error", "conn_error", "bad_json"}

\* every character of the text is whitespace (the empty text included)
AllWhitespace(text) == \A k \in 1..Len(text) : text[k] \in Whitespace

\* the reply holds y, e, s in a row, each in either case
HoldsYesAnyCase(raw) ==
    \E k \in 1..(Len(raw) - 2) :
        /\ raw[k] \in {"y", "Y"}
        /\ raw[k + 1] \in {"e", "E"}
        /\ raw[k + 2] \in {"s", "S"}

---------------------------------------------------------------------------
(* C1 *)

\* C1: an invocation whose last message is judged a refusal issues, once
\* each and in this order, evict(primary), generate(secondary, messages
\* without the last), evict(secondary), load(primary), whatever the evict
\* requests come to.
C1_SwapSequenceAlwaysComplete ==
    \A i \in Invocations : (Ended(i) /\ is_refusal[i]) => FullSwap(i)

---------------------------------------------------------------------------
(* C2 *)

\* C2: an invocation that began with the primary resident and the secondary
\* (another model) not resident ends with the primary resident and the
\* secondary evicted, whatever the requests come to.  Stated of the
\* invocations that return a body; those that end by raising are C8's.
C2_ResidencyRestored ==
    \A i \in Invocations :
        (/\ Returned(i)
         /\ Primary(i) = PrimaryModel
         /\ PrimaryModel \in resident0
         /\ Secondary \notin resident0)
        => (PrimaryModel \in resident /\ Secondary \notin resident)

---------------------------------------------------------------------------
(* C3 *)

\* C3: when the generate request fails, outlet raises nothing, still issues
\* evict(secondary) and then load(primary), and returns a body whose last
\* message holds a non-empty diagnostic text.
C3_GenerateFailureStillCleansUp ==
    \A i \in Invocations :
        (/\ Ended(i)
         /\ \E k \in 1..Len(calls[i]) :
                "messages" \in DOMAIN calls[i][k].req /\ Failed(calls[i][k]))
        => (/\ Returned(i)
            /\ FullSwap(i)
            /\ GetContent(Last(GetMessages(body[i]))) # <<>>)

---------------------------------------------------------------------------
(* C4 *)

\* the judge request of the invocation failed
ClassifyFailed(i) ==
    \E k \in 1..Len(calls[i]) : IsClassify(calls[i][k]) /\ Failed(calls[i][k])

\* C4: once the last message is judged not a refusal, and whenever the
\* classification failed, the invocation has sent no evict, load or generate
\* request and the body is the input, message for message.
C4_NotRefusalPassesThrough ==
    \A i \in Invocations :
        (judged[i] /\ (~is_refusal[i] \/ ClassifyFailed(i)))
        => (SwapCalls(i) = <<>> /\ body[i] = body0[i])

\* a two-message body came back after the judge request failed
C4_Witness ==
    /\ Returned(1)
    /\ judged[1]
    /\ ClassifyFailed(1)
    /\ Len(Messages0(1)) = 2
    /\ emitter[1] = "present"

---------------------------------------------------------------------------
(* C5 *)

\* the generate request of the invocation, as answered
GenerateCall(i) == SwapCalls(i)[2]

\* C5: the body an invocation returns after a refusal is the input with the
\* content of the last message replaced by the text generate_replacement
\* returned for generate(secondary, messages without the last); length,
\* earlier messages and the other keys of the last message are the input's.
C5_OnlyLastContentReplaced ==
    \A i \in Invocations :
        (Returned(i) /\ is_refusal[i]) =>
            LET before == Messages0(i)
                after == GetMessages(body[i])
                n == Len(before)
            IN /\ Len(after) = n
               /\ \A k \in 1..(n - 1) : after[k] = before[k]
               /\ \A f \in DOMAIN before[n] \ {"content"} :
                    f \in DOMAIN after[n] /\ after[n][f] = before[n][f]
               /\ DOMAIN after[n] = DOMAIN before[n] \cup {"content"}
               /\ IsGenerate(GenerateCall(i), Secondary, ButLast(before))
               /\ after[n].content =
                    (CASE GenerateCall(i).resp.status = "ok" ->
                            GenerateCall(i).resp.content
                       [] GenerateCall(i).resp.status = "no_content" ->
                            <<"Error generating replacement.">>
                       [] OTHER ->
                            <<"System Error: Failed to swap models. ">> \o ExcText)
               /\ GetModel(body[i]) = GetModel(body0[i])

\* a two-message body came back with the generated text in its last message
C5_Witness ==
    /\ Returned(1)
    /\ is_refusal[1]
    /\ Len(Messages0(1)) = 2
    /\ GetContent(Last(Messages0(1))) = <<" ", "a">>
    /\ GetContent(Last(GetMessages(body[1]))) = <<"o", "k">>
    /\ GetMessages(body[1])[1] = UserMessage

---------------------------------------------------------------------------
(* C6 *)

\* the text check_refusal was given holds a character that is not whitespace
NonBlankText(text) == text # NonText /\ ~AllWhitespace(text)

\* C6: for a non-blank text check_refusal sends the judge request, and its
\* verdict is true exactly when the request succeeded and the raw reply
\* holds "YES" in any case, anywhere; a failed request gives false.
C6_VerdictIffReplyHoldsYes ==
    \A i \in Invocations :
        (judged[i] /\ NonBlankText(ai_response[i])) =>
            /\ calls[i] # <<>>
            /\ IsClassify(calls[i][1])
            /\ is_refusal[i] => calls[i][1].resp.status = "ok"
            /\ Len(calls[i]) = 1 =>
                (is_refusal[i] <=>
                    (/\ response[i].status = "ok"
                     /\ HoldsYesAnyCase(response[i].response)))

\* the judge answered "nyeS" and the verdict is a refusal
C6_Witness ==
    /\ judged[1]
    /\ is_refusal[1]
    /\ Len(calls[1]) = 1
    /\ response[1] = [status |-> "ok", response |-> <<"n", "y", "e", "S">>]

---------------------------------------------------------------------------
(* C7 *)

\* the content of the last message of the input
Content0(i) == GetContent(Last(Messages0(i)))

\* C7: an invocation whose last message is empty or all whitespace sends no
\* request to the runtime at any point, and its verdict is false.
C7_BlankTextNoRequest ==
    \A i \in Invocations :
        (/\ Messages0(i) # <<>>
         /\ Content0(i) # NonText
         /\ AllWhitespace(Content0(i)))
        => (calls[i] = <<>> /\ ~is_refusal[i])

\* an invocation on a whitespace-only last message has been judged and has
\* returned
C7_Witness ==
    /\ Returned(1)
    /\ judged[1]
    /\ Content0(1) = <<"\n", " ">>
    /\ calls[1] = <<>>

---------------------------------------------------------------------------
(* C8 *)

\* C8: no invocation is cut short by the observer: outlet never ends by
\* raising, and once evict(primary) was sent an invocation that has ended
\* has sent evict(secondary) and load(primary) and has returned.
C8_ObserverFailureNeverAborts ==
    \A i \in Invocations :
        /\ ~Raised(i)
        /\ (Ended(i) /\ \E k \in 1..Len(calls[i]) : IsEvict(calls[i][k], Primary(i)))
            => (/\ Returned(i)
                /\ \E k \in 1..Len(calls[i]) : IsEvict(calls[i][k], Secondary)
                /\ \E k \in 1..Len(calls[i]) : IsLoad(calls[i][k], Primary(i)))

---------------------------------------------------------------------------
(* C9 *)

\* C9: an invocation that has ended has returned a body, whatever its
\* requests came to; after a refusal it has been through the four swap
\* steps, each answered.
C9_EndsByReturning ==
    \A i \in Invocations :
        Ended(i) =>
            /\ Returned(i)
            /\ is_refusal[i] =>
                /\ Len(SwapCalls(i)) = 4
                /\ \A k \in 1..4 : SwapCalls(i)[k].resp # Pending

---------------------------------------------------------------------------
(* C10 *)

\* C10: an invocation on a body with no messages, or with an empty message
\* sequence, returns at its first step with the body as it was, no event
\* emitted and no request sent.
C10_EmptyInputIsNoOp ==
    \A i \in Invocations :
        (Messages0(i) = <<>> /\ pc[i] \notin {"none", "start"})
        => (/\ Returned(i)
            /\ body[i] = body0[i]
            /\ events[i] = <<>>
            /\ calls[i] = <<>>)

\* an invocation with an observer returned a body that has no messages key
C10_Witness ==
    /\ Returned(1)
    /\ "messages" \notin DOMAIN body0[1]
    /\ emitter[1] = "present"

---------------------------------------------------------------------------
(* C11 *)

\* C11: an invocation judged not a refusal that has ended has handed
\* emit_status exactly one update with done=true: the last one, with an empty
\* description; every update before it has done=false, and an observer that
\* accepted them all holds exactly these.
C11_NotRefusalOneTerminalEvent ==
    \A i \in Invocations :
        (judged[i] /\ ~is_refusal[i]) =>
            /\ Ended(i) =>
                /\ emitted[i] # <<>>
                /\ Last(emitted[i]).data.done
                /\ Last(emitted[i]).data.description = <<>>
                /\ \A k \in 1..(Len(emitted[i]) - 1) : ~emitted[i][k].data.done
            /\ ~Ended(i) => \A k \in 1..Len(emitted[i]) : ~emitted[i][k].data.done
            /\ (Returned(i) /\ emitter[i] = "present") => events[i] = emitted[i]

\* the judge said no, and the observer holds the checking update and the
\* closing one
C11_Witness ==
    /\ Returned(1)
    /\ judged[1]
    /\ ~is_refusal[1]
    /\ Len(calls[1]) = 1
    /\ calls[1][1].resp.status = "ok"
    /\ Len(events[1]) = 2
    /\ events[1][2].data = [description |-> <<>>, done |-> TRUE]

---------------------------------------------------------------------------
(* C12 *)

\* the positions at which a worker is inside unload_model or load_model
ResidencyWaitPcs == {"wait_unload_primary", "wait_unload_secondary", "wait_load"}

\* the keep_alive requests of the invocation that failed and whose helper
\* has returned
FailedResidencyCalls(i) ==
    {k \in 1..Len(calls[i]) :
        /\ "keep_alive" \in DOMAIN calls[i][k].req
        /\ Failed(calls[i][k])
        /\ (k < Len(calls[i]) \/ pc[i] \notin ResidencyWaitPcs)}

\* the console lines that record a failed keep_alive request
ResidencyErrorLines(i) ==
    {k \in 1..Len(printed[i]) :
        printed[i][k] \in {"Error unloading", "Error loading"}}

\* C12: unload_model and load_model return normally whatever became of the
\* request, and every failed request has its line in the log.
C12_ResidencyFailuresLogged ==
    \A i \in Invocations :
        Cardinality(ResidencyErrorLines(i)) = Cardinality(FailedResidencyCalls(i))

---------------------------------------------------------------------------
(* C13 *)

\* the reply the deterministic judge gives to the judge request for a text
JudgeReplyTo(text) ==
    oracle.judge[<<PromptHead>> \o SubSeq(text, 1, Min(Len(text), 1000))
                    \o <<PromptTail>>]

\* the verdict, from the text and the judge's reply alone
VerdictFor(text) ==
    /\ ~AllWhitespace(text)
    /\ JudgeReplyTo(text).status = "ok"
    /\ HoldsYesAnyCase(JudgeReplyTo(text).response)

\* C13: against a deterministic judge, two classifications of the same text
\* give the same verdict, and every verdict is the one the text and the
\* judge's reply to it determine: nothing of an earlier call is kept.
C13_SameTextSameVerdict ==
    /\ \A i, j \in Invocations :
            (judged[i] /\ judged[j] /\ ai_response[i] = ai_response[j])
            => is_refusal[i] = is_refusal[j]
    /\ \A i \in Invocations :
            judged[i] => (is_refusal[i] <=> VerdictFor(ai_response[i]))

\* the same text was sent to the judge twice and judged a refusal twice
C13_Witness ==
    /\ judged[1] /\ judged[2]
    /\ ai_response[1] = ai_response[2]
    /\ is_refusal[1] /\ is_refusal[2]
    /\ Len(calls[1]) >= 1 /\ Len(calls[2]) >= 1
    /\ IsClassify(calls[1][1]) /\ IsClassify(calls[2][1])
    /\ calls[1][1].req = calls[2][1].req

---------------------------------------------------------------------------
(* C14 *)

\* the invocation awaits a helper whose request is still in flight
RequestInFlight(i) == pc[i] \in WaitPcs /\ ~Answered(i)

\* the invocation is inside outlet and waits for no reply
Runnable(i) == pc[i] \notin {"none", "returned", "raised"} /\ ~RequestInFlight(i)

---------------------------------------------------------------------------
(* C15 *)

Progress(description, done) ==
    [type |-> "status", data |-> [description |-> description, done |-> done]]

\* the six events of a swap, in order
SwapEvents(i) ==
    <<Progress(<<"Checking response for refusal...">>, FALSE),
      Progress(<<"Refusal detected. Unloading ", Primary(i), "...">>, FALSE),
      Progress(<<"Loading ", Secondary, " & Generating...">>, FALSE),
      Progress(<<"Unloading ", Secondary, "...">>, FALSE),
      Progress(<<"Restoring ", Primary(i), "...">>, FALSE),
      Progress(<<"Model swap complete.">>, TRUE)>>

\* the events handed to emit_status so far are the first of the six, every
\* request was sent after the event that announces it, and the last event
\* follows the reply to load(primary)
SwapEventsOrdered(i) ==
    /\ Len(emitted[i]) <= 6
    /\ emitted[i] = SubSeq(SwapEvents(i), 1, Len(emitted[i]))
    /\ Len(calls[i]) <= Len(emitted[i])
    /\ Len(emitted[i]) = 6
        => (/\ Len(calls[i]) = 5
            /\ IsLoad(calls[i][5], Primary(i))
            /\ calls[i][5].resp # Pending)

\* C15: an invocation whose last message is judged a refusal emits checking,
\* unloading primary, loading secondary and generating, unloading secondary,
\* restoring primary and swap complete (done=true), in this order, each of
\* the first five before the request it announces and the last after
\* load(primary) has returned.
C15_SwapEventsInOrder ==
    \A i \in Invocations :
        is_refusal[i]
        => /\ SwapEventsOrdered(i)
           /\ Ended(i) => emitted[i] = SwapEvents(i)

\* the order alone, of as many events as were emitted
C15_OrderOfEmitted ==
    \A i \in Invocations : is_refusal[i] => SwapEventsOrdered(i)

---------------------------------------------------------------------------
(* C16 *)

\* the first n characters of a text, or all of them when it has fewer
FirstChars(text, n) ==
    SubSeq(text, 1, IF Len(text) < n THEN Len(text) ELSE n)

\* the judge request of an invocation, if it sent one
JudgeCalls(i) == SelectSeq(calls[i], IsClassify)

\* C16: the judge prompt of a non-blank text holds, between its fixed head
\* and tail, exactly the first min(length, 1000) characters of the text; two
\* non-blank texts with the same first 1000 characters give the same judge
\* request and, the judge being deterministic, the same verdict.
C16_PromptHoldsFirstThousand ==
    /\ \A i \in Invocations :
        /\ JudgeCalls(i) # <<>>
            => JudgeCalls(i)[1].req.prompt =
                <<PromptHead>> \o FirstChars(ai_response[i], 1000) \o <<PromptTail>>
        /\ (judged[i] /\ ~AllWhitespace(ai_response[i])) => Len(JudgeCalls(i)) = 1
    /\ \A i, j \in Invocations :
        (/\ judged[i] /\ judged[j]
         /\ ~AllWhitespace(ai_response[i]) /\ ~AllWhitespace(ai_response[j])
         /\ FirstChars(ai_response[i], 1000) = FirstChars(ai_response[j], 1000))
        => (/\ JudgeCalls(i)[1].req = JudgeCalls(j)[1].req
            /\ is_refusal[i] = is_refusal[j])

\* a text of 1001 characters and another that differs from it in the last
\* one were both judged refusals on the same request
C16_Witness ==
    /\ judged[1] /\ judged[2]
    /\ Len(ai_response[1]) = 1001 /\ Len(ai_response[2]) = 1001
    /\ ai_response[1] # ai_response[2]
    /\ JudgeCalls(1) # <<>> /\ JudgeCalls(2) # <<>>
    /\ JudgeCalls(1)[1].req = JudgeCalls(2)[1].req
    /\ is_refusal[1] /\ is_refusal[2]

---------------------------------------------------------------------------
(* C17 *)

\* every keep_alive request sent so far was answered, and succeeded
ResidencyAllOk ==
    \A i \in Invocations : \A k \in 1..Len(calls[i]) :
        "keep_alive" \in DOMAIN calls[i][k].req => calls[i][k].resp.status = "ok"

\* the invocation has had the primary evicted and has not yet sent its
\* load request
PrimaryEvictedBy(i) ==
    /\ \E k \in 1..Len(calls[i]) :
        IsEvict(calls[i][k], PrimaryModel) /\ calls[i][k].resp.status = "ok"
    /\ \A k \in 1..Len(calls[i]) : ~IsLoad(calls[i][k], PrimaryModel)

\* the generate request of the invocation is in flight
GenerateInFlight(i) == pc[i] = "wait_generate" /\ ~Answered(i)

\* C17: nothing keeps an invocation from beginning or continuing its swap
\* while another one is inside its own (no lock); and when an invocation has
\* returned from a swap whose requests all succeeded and the primary is not
\* resident, another invocation has evicted it in between.
C17_NoLockOnResidentSet ==
    /\ \A i \in Invocations :
        (pc[i] \in SwapPcs /\ ~RequestInFlight(i)) => ENABLED OutletStep(i)
    /\ \A i \in Invocations :
        (/\ Returned(i) /\ is_refusal[i]
         /\ ResidencyAllOk
         /\ PrimaryModel \notin resident)
        => \E j \in Invocations \ {i} : PrimaryEvictedBy(j)

\* one invocation has returned from a complete swap and the primary is not
\* resident, with every request a success: the other is inside its swap
C17_ReturnedWithoutPrimary ==
    /\ Returned(1) /\ FullSwap(1)
    /\ ResidencyAllOk
    /\ PrimaryModel \notin resident
    /\ pc[2] \in SwapPcs

\* the generate request of one invocation is in flight while the primary is
\* resident, the other invocation having reloaded it
C17_Witness ==
    /\ GenerateInFlight(2)
    /\ ResidencyAllOk
    /\ PrimaryModel \in resident
    /\ Returned(1) /\ FullSwap(1)

---------------------------------------------------------------------------
(* C18 *)

\* C18: when every invocation has returned and every evict and load request
\* succeeded, the primary is resident and the secondary is not, however the
\* invocations were interleaved.
C18_QuiescentResidency ==
    ((\A i \in Invocations : Returned(i)) /\ ResidencyAllOk)
    => (PrimaryModel \in resident /\ Secondary \notin resident)

\* every invocation has returned from a complete swap, every request a
\* success
C18_Witness ==
    /\ \A i \in Invocations : Returned(i) /\ is_refusal[i] /\ FullSwap(i)
    /\ ResidencyAllOk
    /\ PrimaryModel \in resident

---------------------------------------------------------------------------
(* C19 *)

\* load(primary) of the invocation has returned
LoadReturned(i) ==
    \E k \in 1..Len(calls[i]) :
        IsLoad(calls[i][k], Primary(i)) /\ calls[i][k].resp # Pending

\* the done=true swap-complete event is the last one emitted
SwapCompleteEmitted(i) ==
    /\ emitted[i] # <<>>
    /\ Last(emitted[i]).data.description = <<"Model swap complete.">>
    /\ Last(emitted[i]).data.done

\* C19: as long as load(primary) has not returned or the swap-complete event
\* has not been emitted, the body is the caller's input, message for message;
\* a body that differs from the input is one whose invocation has gone
\* through both.
C19_BodyUntouchedBeforeCompletion ==
    \A i \in Invocations :
        /\ ~(LoadReturned(i) /\ SwapCompleteEmitted(i)) => body[i] = body0[i]
        /\ body[i] # body0[i] => Returned(i)

\* mid-swap, after the secondary has answered with another text, the last
\* message still holds the original content
C19_Witness ==
    /\ pc[1] = "call_load"
    /\ new_answer[1] = <<"o", "k">>
    /\ Len(Messages0(1)) = 2
    /\ GetContent(Last(GetMessages(body[1]))) = <<"a">>

\* the swap went through and the last message holds the new text
C19_Replaced ==
    /\ Returned(1)
    /\ LoadReturned(1) /\ SwapCompleteEmitted(1)
    /\ body[1] # body0[1]

---------------------------------------------------------------------------
(* C20 *)

\* C20: two invocations on the same input, against the same deterministic
\* runtime, that both return have sent the same requests, got the same
\* replies and return the same body, whether or not an observer is
\* registered; without an observer no event is delivered, with one that
\* accepts every event all emitted events are delivered.
C20_ObserverDoesNotInfluence ==
    /\ \A i, j \in Invocations :
        (body0[i] = body0[j] /\ Returned(i) /\ Returned(j))
        => (/\ calls[i] = calls[j]
            /\ body[i] = body[j]
            /\ emitted[i] = emitted[j])
    /\ \A i \in Invocations :
        /\ emitter[i] = "absent" => events[i] = <<>>
        /\ (emitter[i] = "present" /\ Returned(i)) => events[i] = emitted[i]

\* the same refusal went through a full swap once without an observer and
\* once with an observer that accepted all six events
C20_Witness ==
    /\ body0[1] = body0[2]
    /\ emitter[1] = "absent" /\ emitter[2] = "present"
    /\ Returned(1) /\ Returned(2)
    /\ FullSwap(1) /\ FullSwap(2)
    /\ body[1] # body0[1]
    /\ events[1] = <<>> /\ Len(events[2]) = 6

====
